---- MODULE Spec2Model ----
(***************************************************************************)
(* A model of civet.abstract_data: the lazy dependency tree of _ISavable   *)
(* nodes (_StartingFile, Creator, DataSource), its construction through    *)
(* DataSource(path), append and append_join, and the recursive save that   *)
(* stages every dependency in a NamedTemporaryFile, calls the node's run   *)
(* function, guards the command, hands it to the runner (shell) and checks *)
(* the output.  A Session (civet.memoization) wraps requests to resolve    *)
(* nodes and keeps one cache artifact per node until it is torn down.      *)
(* intermediate_saved and intermediate_source save a node to a temporary   *)
(* file for the length of a with statement; Transformable (civet.xfm)      *)
(* joins a surface to the Xfm that transforms it.                          *)
(***************************************************************************)
EXTENDS Integers, Sequences, FiniteSets, TLC

\* ------------------------------------------------------------------ bounds
MaxNodes == 3
MaxInputs == 2
MaxSaves == 1
MaxRepeats == 1
MaxResolves == 2
MaxTransforms == 2

\* ------------------------------------------------------------ value spaces
\* A token of a command, and a path, is a pair <<text, index>>: words and
\* user paths carry index 0, the i-th temporary file is <<"tmp", i>>.
Word(s) == <<s, 0>>
Tmp(i) == <<"tmp", i>>

InputFiles == {Word("in1"), Word("in2")}

\* The constructor calls cls(input) a caller makes with a path, which is a
\* PathLike or a str: two classes over the two input files, and one call
\* with a path that is no file.
SourceCalls ==
    {<<"ConcreteDataSource", "PathLike", Word("in1")>>,
     <<"Mask", "PathLike", Word("in2")>>,
     <<"ConcreteDataSource", "PathLike", Word("dne")>>}

\* The same calls with the path given as a str; "" is the empty str.
StrCalls ==
    {<<"ConcreteDataSource", "str", Word("in1")>>,
     <<"ConcreteDataSource", "str", Word("dne")>>,
     <<"ConcreteDataSource", "str", Word("")>>}
OutputPaths == {Word("out")}
RunFunctions == {"noop", "minccalc", "true"}
CreatorCommands == {"param2xfm", "true"}

FileContent(p) == IF p = Word("in1") THEN "hello" ELSE "world"

NoException == [type |-> "none", node |-> 0]
NoOp == [op |-> "none", self |-> 0, inputs |-> <<>>, result |-> "none", new |-> 0]

\* The record of a constructor call cls(input): input is <<type, path>>.
Constructed(type, p, result, new) ==
    [op |-> "DataSource", self |-> 0, inputs |-> <<Word(type), p>>,
     result |-> result, new |-> new]

\* The Session a caller may open around its saves: not open, no artifact.
NoSession ==
    [state |-> "none", require_output |-> FALSE, shell |-> "none",
     cache |-> <<>>, artifacts |-> {}]

\* The with statement a caller may open on intermediate_saved or
\* intermediate_source of a node: not entered, nothing yielded.
NoScope ==
    [state |-> "none", kind |-> "none", node |-> 0, output |-> Word(""),
     saved |-> "no", entered |-> FALSE, yielded |-> 0, error |-> "none"]

VARIABLES nodes, fs, stack, exc, log, created, ntmp, status, root, nsaves, lastOp,
          session, scope

vars == <<nodes, fs, stack, exc, log, created, ntmp, status, root, nsaves, lastOp,
          session, scope>>

\* ----------------------------------------------------------- sequence help
Range(s) == {s[i] : i \in 1..Len(s)}

SeqsUpTo(S, n) == UNION {[1..m -> S] : m \in 1..n}

\* ---------------------------------------------------------------- the nodes
NodeIds == 1..Len(nodes)

\* The nodes a caller holds: a _StartingFile is private to its DataSource.
Savable == {n \in NodeIds : nodes[n].kind # "StartingFile"}

\* The tree is built first and saved afterwards: nodes are frozen, and save
\* changes none of them.
Building ==
    status = "idle" /\ session.state = "none" /\ Cardinality(Savable) < MaxNodes

\* given is the iterable a DataSource was constructed from, when the caller
\* passed one to the constructor: its type and its elements.
NotGiven == [type |-> "none", elements |-> <<>>]

StartingFile(p) ==
    [kind |-> "StartingFile", cls |-> "_StartingFile", run |-> "none",
     prev |-> <<>>, starting_file |-> p, given |-> NotGiven]

DataSource(cls, prev, run) ==
    [kind |-> "DataSource", cls |-> cls, run |-> run, prev |-> prev,
     starting_file |-> Word(""), given |-> NotGiven]

Creator(command) ==
    [kind |-> "Creator", cls |-> "Xfm", run |-> command, prev |-> <<>>,
     starting_file |-> Word(""), given |-> NotGiven]

\* os.path.isfile
IsFile(p) == p \in DOMAIN fs

\* The dataclass-generated __eq__ of two nodes: identity, or the same class
\* and equal fields.  input is an InitVar and prev a ClassVar, so the only
\* field of a DataSource is run; the field of a _StartingFile is its path.
DataclassEq(a, b) ==
    \/ a = b
    \/ /\ nodes[a].cls = nodes[b].cls
       /\ nodes[a].kind = nodes[b].kind
       /\ \/ nodes[a].kind = "DataSource" /\ nodes[a].run = nodes[b].run
          \/ nodes[a].kind = "StartingFile" /\ nodes[a].starting_file = nodes[b].starting_file
          \/ nodes[a].kind = "Creator" /\ nodes[a].run = nodes[b].run

\* `self in inputs` on a tuple: some element is self or equals it.
Contains(inputs, self) == \E i \in 1..Len(inputs) : DataclassEq(inputs[i], self)

\* ------------------------------------------------------- the run functions
\* What run(inputs, output) does: it raises, or it returns a command.
\*   noop      cp of its single input to output, ValueError otherwise
\*   minccalc  a program taking every input, then output
\*   true      a command that leaves the output path out
\*   apply_xfm the transform program of a surface, its object and xfm inputs
RunRaises(run, inputs) == run = "noop" /\ Len(inputs) # 1

RunCommand(run, inputs, output) ==
    CASE run = "noop" -> <<Word("cp"), inputs[1], output>>
      [] run = "minccalc" -> <<Word("minccalc")>> \o inputs \o <<output>>
      [] run = "apply_xfm" -> <<Word("transform_objects"), inputs[1], inputs[2], output>>
      [] OTHER -> <<Word("true")>>

\* The members of Transformations an Xfm is made with, and the x, y, z that
\* flip_x (SCALES) and slide_right (TRANSLATION) give it.
Transformations == {"SCALES", "TRANSLATION"}

XfmParameters(transformation) ==
    IF transformation = "SCALES"
    THEN <<<<"float", -1>>, <<"float", 1>>, <<"float", 1>>>>
    ELSE <<<<"float", 25>>, <<"float", 0>>, <<"float", 0>>>>

\* Creator.command(output) of the generator classes; Xfm.command puts the
\* name of the transformation and x, y, z before the output path.
CreatorCommand(command, output) ==
    CASE command = "param2xfm" -> <<Word("param2xfm"), Word("-clobber"), output>>
      [] command \in Transformations ->
             <<Word("param2xfm"), Word("-clobber"), Word(command)>>
                 \o XfmParameters(command) \o <<output>>
      [] OTHER -> <<Word("true")>>

\* Mutant of OutputMissingFromCommand: the guard never fires.
GuardNeverFires(output, cmd) == FALSE

\* `output not in cmd`
OutputMissingFromCommand(output, cmd) == \A i \in 1..Len(cmd) : cmd[i] # output

\* ------------------------------------------------------- the file system
\* fs maps every existing path to its content.
Exists(f, p) == p \in DOMAIN f

WriteFile(f, p, content) == [q \in DOMAIN f \cup {p} |-> IF q = p THEN content ELSE f[q]]

\* Mutant of ReleaseTemporaryFiles: the files are closed but not deleted.
KeepTemporaryFiles(f, temps) == f

\* Leaving the ExitStack closes every NamedTemporaryFile, which deletes it.
ReleaseTemporaryFiles(f, temps) == [q \in DOMAIN f \ Range(temps) |-> f[q]]

\* NamedTemporaryFile() for each dependency: fresh, empty, existing files.
\* Names are taken in sequence after the last one in use.
TemporaryNames(n, count) == [i \in 1..count |-> Tmp(n + i)]

LastTemporary(f) ==
    LET used == {p[2] : p \in {q \in DOMAIN f : q[1] = "tmp"}} IN
    IF used = {} THEN 0 ELSE CHOOSE i \in used : \A j \in used : j <= i

CreateTemporaryFiles(f, temps) ==
    [q \in DOMAIN f \cup Range(temps) |-> IF q \in Range(temps) THEN "" ELSE f[q]]

\* What a command that runs to completion and does its work leaves behind:
\* cp copies its source to its destination, true writes nothing, and any
\* other program writes the path given as its last argument.
CommandEffect(f, cmd) ==
    CASE cmd[1] = Word("cp") /\ Len(cmd) = 3 /\ Exists(f, cmd[2]) ->
             WriteFile(f, cmd[3], f[cmd[2]])
      [] cmd[1] \in {Word("minccalc"), Word("param2xfm"), Word("transform_objects")} ->
             WriteFile(f, cmd[Len(cmd)], "data")
      [] OTHER -> f

\* The runner is injected: the default runs the command (check=True raises
\* when it fails), a test double returns without doing anything.
ShellOutcomes == {"done", "nothing", "fail"}

\* Mutant of OutputRequiredButMissing: require_output is ignored.
OutputMissing(require_output, f, output) == ~Exists(f, output)

\* `require_output and not path.exists(output)`
OutputRequiredButMissing(require_output, f, output) ==
    require_output /\ ~Exists(f, output)

\* ------------------------------------------------------------ the call stack
\* The runner save uses when the caller names none: subprocess_run.
DefaultShell == "subprocess_run"

\* One frame per call of save in progress.  id is the position of the
\* call's save event in the log, parent the id of the calling frame.  shell
\* is the runner the call was given, the default unless it is set.
Frame(id, parent, n, output, require_output) ==
    [id |-> id, parent |-> parent, node |-> n, output |-> output,
     require_output |-> require_output, shell |-> DefaultShell,
     pc |-> "start", real_input_names |-> <<>>, k |-> 1, cmd |-> <<>>]

Top == stack[Len(stack)]

Pop == SubSeq(stack, 1, Len(stack) - 1)

SetTop(f) == [stack EXCEPT ![Len(stack)] = f]

\* The log is the history of one top-level save, in order:
\*   save    save(out) of node is entered
\*   tmp     the temporary files args of that call are created
\*   run     run(args, out) (or command(out)) is called; cmd is what it returned
\*   shell   shell(cmd) is called; args is how the command ended
\*   raise   an exception of type args is raised in that call
\*   return  that call returns normally
\* call and parent name the frame, node and out are its node and the output
\* path it was given, shell the runner it was given.
Event(ev, f, args, cmd) ==
    [ev |-> ev, call |-> f.id, parent |-> f.parent, node |-> f.node,
     args |-> args, cmd |-> cmd, out |-> f.output, shell |-> f.shell]

Running == status = "running" /\ stack # <<>>

\* The status of the top-level call once the stack has become s.
StatusAfter(s, e) ==
    IF s # <<>> THEN "running" ELSE IF e = NoException THEN "returned" ELSE "raised"

\* ---------------------------------------------------------------- Init
Init ==
    /\ nodes = <<>>
    /\ fs = [p \in InputFiles |-> FileContent(p)]
    /\ stack = <<>>
    /\ exc = NoException
    /\ log = <<>>
    /\ created = {}
    /\ ntmp = 0
    /\ status = "idle"
    /\ root = [node |-> 0, output |-> Word(""), shell |-> "none",
               require_output |-> FALSE]
    /\ nsaves = 0
    /\ lastOp = NoOp
    /\ session = NoSession
    /\ scope = NoScope

\* ------------------------------------------------------ building the tree
\* _StartingFile.__post_init__
StartingFileError(p) == ~IsFile(p)

\* isinstance(input, Iterable): a str is an Iterable (of its characters), a
\* PathLike is not.
IsIterable(type) == type = "str"

\* not all(map(lambda i: isinstance(i, _ISavable), input)) for a str: every
\* character is a str, so the test fails unless the str has no character.
ContainsInvalidTypes(type, p) == type = "str" /\ p # Word("")

\* cls(input) with a path: DataSource.__post_init__.  The Iterable branch
\* comes first: it raises TypeError for a str with characters and keeps an
\* empty str as prev, which has no element.  A PathLike reaches the last
\* branch, which wraps the path in a _StartingFile, the single dependency of
\* the new node.
NewDataSource(cls, type, p) ==
    /\ status = "idle"
    /\ IF IsIterable(type)
       THEN IF ContainsInvalidTypes(type, p)
            THEN /\ nodes' = nodes
                 /\ lastOp' = Constructed(type, p, "TypeError", 0)
            ELSE /\ Building
                 /\ nodes' = Append(nodes, DataSource(cls, <<>>, "noop"))
                 /\ lastOp' = Constructed(type, p, "ok", Len(nodes) + 1)
       ELSE IF StartingFileError(p)
            THEN /\ nodes' = nodes
                 /\ lastOp' = Constructed(type, p, "FileNotFoundError", 0)
            ELSE /\ Building
                 /\ nodes' = nodes \o <<StartingFile(p),
                                        DataSource(cls, <<Len(nodes) + 1>>, "noop")>>
                 /\ lastOp' = Constructed(type, p, "ok", Len(nodes) + 2)
    /\ UNCHANGED <<scope, session, fs, stack, exc, log, created, ntmp, status, root, nsaves>>

\* The iterables of nodes a caller passes: a tuple, a list, or an iterator
\* (a generator), which can be walked once.
IterableTypes == {"tuple", "list", "iterator"}

\* What iterating input yields once all(map(..., input)) has walked it: a
\* tuple or a list yields its elements again, an iterator is exhausted.
AfterAll(type, inputs) == IF type = "iterator" THEN <<>> ELSE inputs

\* cls(input, run) with an iterable of nodes: DataSource.__post_init__ takes
\* the Iterable branch; every element is an _ISavable, so no TypeError, and
\* prev is set to input itself, after the test has walked it.
NewFromIterable(cls, type, inputs, run) ==
    /\ Building
    /\ nodes' = Append(nodes, [DataSource(cls, AfterAll(type, inputs), run)
                                  EXCEPT !.given = [type |-> type, elements |-> inputs]])
    /\ lastOp' = [op |-> "DataSource", self |-> 0, inputs |-> inputs,
                  result |-> "ok", new |-> Len(nodes) + 1]
    /\ UNCHANGED <<scope, session, fs, stack, exc, log, created, ntmp, status, root, nsaves>>

\* A concrete Creator (Xfm is one) is constructed; nothing is checked.
NewCreator(command) ==
    /\ Building
    /\ nodes' = Append(nodes, Creator(command))
    /\ lastOp' = [op |-> "Creator", self |-> 0, inputs |-> <<>>,
                  result |-> "ok", new |-> Len(nodes) + 1]
    /\ UNCHANGED <<scope, session, fs, stack, exc, log, created, ntmp, status, root, nsaves>>

\* `if self not in inputs: raise ValueError`
AppendJoinError(self, inputs) == ~Contains(inputs, self)

\* Mutant of DoAppendJoin: the new node's run function is called on the spot.
EagerAppendJoin(self, run, inputs) ==
    /\ Building
    /\ nodes[self].kind = "DataSource"
    /\ ~AppendJoinError(self, inputs)
    /\ nodes' = Append(nodes, DataSource(nodes[self].cls, inputs, run))
    /\ lastOp' = [op |-> "append_join", self |-> self, inputs |-> inputs,
                  result |-> "ok", new |-> Len(nodes) + 1]
    /\ log' = Append(log, Event("run", Frame(0, 0, Len(nodes) + 1, Word(""), FALSE),
                                <<>>, <<>>))
    /\ UNCHANGED <<scope, session, fs, stack, exc, created, ntmp, status, root, nsaves>>

\* self.append_join(run, inputs): dataclasses.replace(self, input=inputs,
\* run=run) builds a node of self's class whose prev is inputs.
DoAppendJoin(self, run, inputs) ==
    /\ status = "idle"
    /\ nodes[self].kind = "DataSource"
    /\ IF AppendJoinError(self, inputs)
       THEN /\ nodes' = nodes
            /\ lastOp' = [op |-> "append_join", self |-> self, inputs |-> inputs,
                          result |-> "ValueError", new |-> 0]
       ELSE /\ Building
            /\ nodes' = Append(nodes, DataSource(nodes[self].cls, inputs, run))
            /\ lastOp' = [op |-> "append_join", self |-> self, inputs |-> inputs,
                          result |-> "ok", new |-> Len(nodes) + 1]
    /\ UNCHANGED <<scope, session, fs, stack, exc, log, created, ntmp, status, root, nsaves>>

AppendJoin(self, run, inputs) == DoAppendJoin(self, run, inputs)

\* self.append(run) is self.append_join(run, (self,))
AppendRun(self, run) == DoAppendJoin(self, run, <<self>>)

\* Surface(path): a Transformable whose transform_program is
\* transform_objects.
SurfaceCalls == {<<"Surface", "PathLike", Word("in1")>>}

SurfaceOutputs == {Word("result.obj")}

\* Transformable.append_xfm(Xfm(transformation, x, y, z)): the Xfm is made
\* and self.append_join(apply_xfm, inputs=(self, xfm)) joins it to self.
AppendXfm(self, transformation) ==
    /\ status = "idle" /\ session.state = "none"
    /\ nodes[self].kind = "DataSource" /\ nodes[self].cls = "Surface"
    /\ Cardinality({n \in NodeIds : nodes[n].run = "apply_xfm"}) < MaxTransforms
    /\ LET xfm == Len(nodes) + 1 IN
        /\ nodes' = nodes \o <<Creator(transformation),
                               DataSource(nodes[self].cls, <<self, xfm>>, "apply_xfm")>>
        /\ lastOp' = [op |-> "append_xfm", self |-> self, inputs |-> <<self, xfm>>,
                      result |-> "ok", new |-> Len(nodes) + 2]
    /\ UNCHANGED <<scope, session, fs, stack, exc, log, created, ntmp, status, root, nsaves>>

\* flip_x: append_xfm(Xfm(Transformations.SCALES, -1, 1, 1))
FlipX(self) == AppendXfm(self, "SCALES")

\* slide_right: translate_x(25), append_xfm(Xfm(Transformations.TRANSLATION, 25, 0, 0))
SlideRight(self) == AppendXfm(self, "TRANSLATION")

\* ------------------------------------------------------------------- save
\* Mutant of Prev: save resolves no dependency.
EmptyPrev(n) == <<>>

\* self.prev, the dependencies save resolves.
Prev(n) == nodes[n].prev

\* Mutant of DependencyOutput: the dependency is saved to a path of its own,
\* not to the one that is handed to run.
OtherDependencyOutput(temps, k) == <<"other", temps[k][2]>>

\* zip(self.prev, real_input_names): the path the k-th dependency is saved to.
DependencyOutput(temps, k) == temps[k]

\* Mutant of RealInputNames: the paths are handed over in reverse order.
ReversedInputNames(temps) == [i \in 1..Len(temps) |-> temps[Len(temps) + 1 - i]]

\* The tuple handed to run: real_input_names, in the order of prev.
RealInputNames(temps) == temps

\* The second argument handed to run: the output path save was given.
RunOutput(f) == f.output

\* The run event of frame f: out is the output argument run received.
RunEvent(f, inputs, output, cmd) == [Event("run", f, inputs, cmd) EXCEPT !.out = output]

Raise(type, n) == [type |-> type, node |-> n]

RaiseEvent(type, f) == Event("raise", f, <<Word(type)>>, <<>>)

ReturnEvent(f) == Event("return", f, <<>>, <<>>)

\* node.save(output, shell, require_output) called by the user.
SaveWith(n, output, shell, require_output) ==
    /\ status # "running"
    /\ nsaves < MaxSaves
    /\ stack' = <<[Frame(1, 0, n, output, require_output) EXCEPT !.shell = shell]>>
    /\ status' = "running"
    /\ exc' = NoException
    /\ log' = <<Event("save", [Frame(1, 0, n, output, require_output)
                                  EXCEPT !.shell = shell], <<>>, <<>>)>>
    /\ created' = {}
    /\ root' = [node |-> n, output |-> output, shell |-> shell,
                require_output |-> require_output]
    /\ nsaves' = nsaves + 1
    /\ lastOp' = NoOp
    /\ ntmp' = LastTemporary(fs)
    /\ UNCHANGED <<scope, session, nodes, fs>>

\* node.save(output, require_output=...) with the shell argument left out.
Save(n, output, require_output) == SaveWith(n, output, DefaultShell, require_output)

\* DataSource.save: one NamedTemporaryFile per dependency, all entered into
\* the ExitStack before the first dependency is saved.
EnterTemporaryFiles ==
    /\ Running /\ exc = NoException
    /\ Top.pc = "start" /\ nodes[Top.node].kind = "DataSource"
    /\ LET temps == TemporaryNames(ntmp, Len(Prev(Top.node))) IN
        /\ fs' = CreateTemporaryFiles(fs, temps)
        /\ created' = created \cup Range(temps)
        /\ ntmp' = ntmp + Len(temps)
        /\ stack' = SetTop([Top EXCEPT !.pc = "deps", !.real_input_names = temps])
        /\ log' = Append(log, Event("tmp", Top, temps, <<>>))
    /\ UNCHANGED <<scope, session, nodes, exc, status, root, nsaves, lastOp>>

\* Mutant of NextDependency: the dependencies are saved last one first.
LastDependencyFirst(n, k) == Prev(n)[Len(Prev(n)) + 1 - k]

\* for dependency, prev_output in zip(self.prev, real_input_names): the k-th
\* dependency the loop saves is the k-th element of prev.
NextDependency(n, k) == Prev(n)[k]

\* Mutant of PassedShell: the dependency is saved with the default runner.
ShellLeftOut(f) == DefaultShell

\* shell=shell: the runner a call hands to the save of its dependencies.
PassedShell(f) == f.shell

\* dependency.save(prev_output, shell=shell, require_output=require_output)
SaveDependency ==
    /\ Running /\ exc = NoException
    /\ session.state # "open"
    /\ Top.pc = "deps" /\ Top.k <= Len(Prev(Top.node))
    /\ LET dep == NextDependency(Top.node, Top.k)
           out == DependencyOutput(Top.real_input_names, Top.k)
           call == [Frame(Len(log) + 1, Top.id, dep, out, Top.require_output)
                       EXCEPT !.shell = PassedShell(Top)] IN
        /\ stack' = Append(SetTop([Top EXCEPT !.k = @ + 1]), call)
        /\ log' = Append(log, Event("save", call, <<>>, <<>>))
    /\ UNCHANGED <<scope, session, nodes, fs, exc, created, ntmp, status, root, nsaves, lastOp>>

\* Mutant of CopyStartingFile: the leaf is copied by a cp command handed to
\* the runner.
CopyStartingFileWithRunner ==
    /\ Running /\ exc = NoException
    /\ Top.pc = "start" /\ nodes[Top.node].kind = "StartingFile"
    /\ fs' = WriteFile(fs, Top.output, fs[nodes[Top.node].starting_file])
    /\ log' = log \o <<Event("shell", Top, <<Word("done")>>,
                               <<Word("cp"), nodes[Top.node].starting_file, Top.output>>),
                        ReturnEvent(Top)>>
    /\ stack' = Pop
    /\ status' = StatusAfter(Pop, exc)
    /\ UNCHANGED <<scope, session, nodes, exc, created, ntmp, root, nsaves, lastOp>>

\* _StartingFile.save: shutil.copyfile(self.starting_file, output)
CopyStartingFile ==
    /\ Running /\ exc = NoException
    /\ Top.pc = "start" /\ nodes[Top.node].kind = "StartingFile"
    /\ fs' = WriteFile(fs, Top.output, fs[nodes[Top.node].starting_file])
    /\ log' = Append(log, ReturnEvent(Top))
    /\ stack' = Pop
    /\ status' = StatusAfter(Pop, exc)
    /\ UNCHANGED <<scope, session, nodes, exc, created, ntmp, root, nsaves, lastOp>>

\* cmd = self.run(real_input_names, output)
CallRun ==
    /\ Running /\ exc = NoException
    /\ Top.pc = "deps" /\ Top.k > Len(Prev(Top.node))
    /\ LET n == Top.node
           inputs == RealInputNames(Top.real_input_names)
           output == RunOutput(Top)
           cmd == RunCommand(nodes[n].run, inputs, output) IN
        IF RunRaises(nodes[n].run, inputs)
        THEN /\ exc' = Raise("ValueError", n)
             /\ log' = log \o <<RunEvent(Top, inputs, output, <<>>),
                                RaiseEvent("ValueError", Top)>>
             /\ stack' = stack
        ELSE /\ exc' = exc
             /\ log' = Append(log, RunEvent(Top, inputs, output, cmd))
             /\ stack' = SetTop([Top EXCEPT !.pc = "guard", !.cmd = cmd])
    /\ UNCHANGED <<scope, session, nodes, fs, created, ntmp, status, root, nsaves, lastOp>>

\* Mutant of GuardCommand: shell(cmd) comes after the with block, so the
\* temporary files are released once the command has passed the guard.
GuardAndLeaveExitStack ==
    /\ Running /\ exc = NoException
    /\ Top.pc = "guard"
    /\ IF OutputMissingFromCommand(Top.output, Top.cmd)
       THEN /\ exc' = Raise("ValueError", Top.node)
            /\ log' = Append(log, RaiseEvent("ValueError", Top))
            /\ stack' = stack
            /\ fs' = fs
       ELSE /\ exc' = exc
            /\ log' = log
            /\ stack' = SetTop([Top EXCEPT !.pc = "shell"])
            /\ fs' = ReleaseTemporaryFiles(fs, Top.real_input_names)
    /\ UNCHANGED <<scope, session, nodes, created, ntmp, status, root, nsaves, lastOp>>

\* if output not in cmd: raise ValueError
GuardCommand ==
    /\ Running /\ exc = NoException
    /\ Top.pc = "guard"
    /\ IF OutputMissingFromCommand(Top.output, Top.cmd)
       THEN /\ exc' = Raise("ValueError", Top.node)
            /\ log' = Append(log, RaiseEvent("ValueError", Top))
            /\ stack' = stack
       ELSE /\ exc' = exc
            /\ log' = log
            /\ stack' = SetTop([Top EXCEPT !.pc = "shell"])
    /\ UNCHANGED <<scope, session, nodes, fs, created, ntmp, status, root, nsaves, lastOp>>

\* Creator.save evaluates self.command(output); no guard follows.
CallCommand ==
    /\ Running /\ exc = NoException
    /\ Top.pc = "start" /\ nodes[Top.node].kind = "Creator"
    /\ LET cmd == CreatorCommand(nodes[Top.node].run, Top.output) IN
        /\ log' = Append(log, RunEvent(Top, <<>>, Top.output, cmd))
        /\ stack' = SetTop([Top EXCEPT !.pc = "shell", !.cmd = cmd])
    /\ UNCHANGED <<scope, session, nodes, fs, exc, created, ntmp, status, root, nsaves, lastOp>>

\* pc after shell(cmd) returned: a DataSource leaves its ExitStack, a
\* Creator goes straight to the output check.
AfterShell(kind) == IF kind = "Creator" THEN "verify" ELSE "exit"

\* Mutant of RunShell: a command whose output path exists already is skipped.
SkipWhenOutputExists(outcome) ==
    /\ Running /\ exc = NoException
    /\ Top.pc = "shell"
    /\ IF Exists(fs, Top.output)
       THEN /\ log' = log
            /\ fs' = fs
       ELSE /\ log' = Append(log, Event("shell", Top, <<Word(outcome)>>, Top.cmd))
            /\ fs' = IF outcome = "done" THEN CommandEffect(fs, Top.cmd) ELSE fs
    /\ stack' = SetTop([Top EXCEPT !.pc = AfterShell(nodes[Top.node].kind)])
    /\ UNCHANGED <<scope, session, nodes, exc, created, ntmp, status, root, nsaves, lastOp>>

\* shell(cmd)
RunShell(outcome) ==
    /\ Running /\ exc = NoException
    /\ Top.pc = "shell"
    /\ LET called == Append(log, Event("shell", Top, <<Word(outcome)>>, Top.cmd)) IN
        IF outcome = "fail"
        THEN /\ exc' = Raise("CalledProcessError", Top.node)
             /\ log' = Append(called, RaiseEvent("CalledProcessError", Top))
             /\ fs' = fs
             /\ stack' = stack
        ELSE /\ exc' = exc
             /\ log' = called
             /\ fs' = IF outcome = "done" THEN CommandEffect(fs, Top.cmd) ELSE fs
             /\ stack' = SetTop([Top EXCEPT !.pc = AfterShell(nodes[Top.node].kind)])
    /\ UNCHANGED <<scope, session, nodes, created, ntmp, status, root, nsaves, lastOp>>

\* Mutant of LeaveExitStack: the last file entered is not closed.
LeaveExitStackButOne ==
    /\ Running /\ exc = NoException
    /\ Top.pc = "exit"
    /\ fs' = ReleaseTemporaryFiles(fs, SubSeq(Top.real_input_names, 1,
                                             Len(Top.real_input_names) - 1))
    /\ stack' = SetTop([Top EXCEPT !.pc = "verify", !.real_input_names = <<>>])
    /\ UNCHANGED <<scope, session, nodes, exc, log, created, ntmp, status, root, nsaves, lastOp>>

\* The with block of DataSource.save ends normally.
LeaveExitStack ==
    /\ Running /\ exc = NoException
    /\ Top.pc = "exit"
    /\ fs' = ReleaseTemporaryFiles(fs, Top.real_input_names)
    /\ stack' = SetTop([Top EXCEPT !.pc = "verify", !.real_input_names = <<>>])
    /\ UNCHANGED <<scope, session, nodes, exc, log, created, ntmp, status, root, nsaves, lastOp>>

\* if require_output and not path.exists(output): raise NoOutputException()
\* otherwise save returns.
VerifyOutput ==
    /\ Running /\ exc = NoException
    /\ Top.pc = "verify"
    /\ IF OutputRequiredButMissing(Top.require_output, fs, Top.output)
       THEN /\ exc' = Raise("NoOutputException", Top.node)
            /\ log' = Append(log, RaiseEvent("NoOutputException", Top))
            /\ stack' = stack
            /\ status' = status
       ELSE /\ exc' = exc
            /\ log' = Append(log, ReturnEvent(Top))
            /\ stack' = Pop
            /\ status' = StatusAfter(Pop, exc)
    /\ UNCHANGED <<scope, session, nodes, fs, created, ntmp, root, nsaves, lastOp>>

\* Mutant of Unwind: the caller swallows the exception and carries on.
SwallowAndContinue ==
    /\ Running /\ exc # NoException
    /\ fs' = ReleaseTemporaryFiles(fs, Top.real_input_names)
    /\ stack' = Pop
    /\ exc' = NoException
    /\ status' = StatusAfter(Pop, NoException)
    /\ UNCHANGED <<scope, session, nodes, log, created, ntmp, root, nsaves, lastOp>>

\* An exception leaves the frame that is running: the ExitStack, if the
\* frame is inside it, releases the temporary files, and the exception goes
\* on to the caller, which has no handler.
Unwind ==
    /\ Running /\ exc # NoException
    /\ fs' = ReleaseTemporaryFiles(fs, Top.real_input_names)
    /\ stack' = Pop
    /\ status' = StatusAfter(Pop, exc)
    /\ UNCHANGED <<scope, session, nodes, exc, log, created, ntmp, root, nsaves, lastOp>>

\* ------------------------------------------------------------ the Session
\* The i-th cache artifact of the session, a path of its own.
CachePath(i) == <<"cache", i>>

\* Mutant of CopyCommand: the artifact is moved, not copied.
MoveCommand(cache_path, output) == <<Word("mv"), cache_path, output>>

\* The command that copies a cache artifact to where it was asked for.
CopyCommand(cache_path, output) == <<Word("cp"), Word("-r"), cache_path, output>>

\* The nodes resolved inside a session are built from one input file and
\* from commands that name their output path.
SessionSourceCalls == {<<"ConcreteDataSource", "PathLike", Word("in1")>>}

SessionRunFunctions == {"noop", "minccalc"}

SessionCreatorCommands == {"param2xfm"}

\* The runners a session is given: the default, which runs the command and
\* raises when it fails, or a test double, which returns and does nothing.
SessionShells == {"subprocess_run", "mock"}

\* How a call of the session's runner can end.
SessionShell(outcome) ==
    IF session.shell = "mock" THEN outcome = "nothing" ELSE outcome \in {"done", "fail"}

\* with Session(require_output=ro, shell=shell) as s: the session opens with
\* an empty cache.
EnterSession(ro, shell) ==
    /\ status = "idle" /\ session.state = "none"
    /\ Savable # {}
    /\ session' = [NoSession EXCEPT !.state = "open", !.require_output = ro,
                                    !.shell = shell]
    /\ lastOp' = NoOp
    /\ UNCHANGED <<scope, nodes, fs, stack, exc, log, created, ntmp, status, root, nsaves>>

\* The session has been torn down.
SessionClosed == session.state = "closed"

\* s.save(node, output): a request to resolve node to output.  The log of
\* the session goes on from one request to the next.  A session that was
\* torn down refuses.
SessionSave(n, output) ==
    /\ status # "running" /\ session.state # "none"
    /\ nsaves < MaxResolves
    /\ IF SessionClosed
       THEN /\ lastOp' = [NoOp EXCEPT !.op = "resolve", !.self = n, !.result = "error"]
            /\ UNCHANGED <<scope, stack, log, status, exc, root, nsaves, ntmp>>
       ELSE LET call == [Frame(Len(log) + 1, 0, n, output, session.require_output)
                            EXCEPT !.pc = "resolve"] IN
            /\ stack' = <<call>>
            /\ log' = Append(log, Event("resolve", call, <<>>, <<>>))
            /\ status' = "running"
            /\ exc' = NoException
            /\ root' = [node |-> n, output |-> output, shell |-> DefaultShell,
                        require_output |-> session.require_output]
            /\ nsaves' = nsaves + 1
            /\ ntmp' = LastTemporary(fs)
            /\ lastOp' = NoOp
    /\ UNCHANGED <<scope, session, nodes, fs, created>>

\* Mutant of IsCached: the cache is never consulted.
NeverCached(n) == FALSE

\* The node has a cache entry.
IsCached(n) == n \in DOMAIN session.cache

\* A node is resolved: when it has a cache entry only the copy is left to
\* do; otherwise a new cache artifact is named and the node is saved to it.
SessionLookup ==
    /\ Running /\ exc = NoException
    /\ Top.pc = "resolve"
    /\ IF IsCached(Top.node)
       THEN /\ stack' = SetTop([Top EXCEPT !.pc = "copy",
                                  !.cmd = CopyCommand(session.cache[Top.node], Top.output)])
            /\ log' = log
            /\ session' = session
       ELSE LET cache_path == CachePath(Cardinality(session.artifacts) + 1)
                call == Frame(Len(log) + 1, Top.id, Top.node, cache_path,
                              Top.require_output) IN
            /\ stack' = Append(SetTop([Top EXCEPT !.pc = "commit", !.cmd = <<cache_path>>]),
                               call)
            /\ log' = Append(log, Event("save", call, <<>>, <<>>))
            /\ session' = [session EXCEPT !.artifacts = @ \cup {cache_path}]
    /\ UNCHANGED <<scope, nodes, fs, exc, created, ntmp, status, root, nsaves, lastOp>>

\* Mutant of SessionResolveDependency: a dependency is saved as outside a
\* session, past the cache.
SaveDependencyDirectly ==
    /\ Running /\ exc = NoException
    /\ session.state = "open"
    /\ Top.pc = "deps" /\ Top.k <= Len(Prev(Top.node))
    /\ LET dep == Prev(Top.node)[Top.k]
           out == DependencyOutput(Top.real_input_names, Top.k)
           call == Frame(Len(log) + 1, Top.id, dep, out, Top.require_output) IN
        /\ stack' = Append(SetTop([Top EXCEPT !.k = @ + 1]), call)
        /\ log' = Append(log, Event("save", call, <<>>, <<>>))
    /\ UNCHANGED <<scope, session, nodes, fs, exc, created, ntmp, status, root, nsaves, lastOp>>

\* Inside a session the dependencies of a node are resolved by the session.
SessionResolveDependency ==
    /\ Running /\ exc = NoException
    /\ session.state = "open"
    /\ Top.pc = "deps" /\ Top.k <= Len(Prev(Top.node))
    /\ LET dep == Prev(Top.node)[Top.k]
           out == DependencyOutput(Top.real_input_names, Top.k)
           call == [Frame(Len(log) + 1, Top.id, dep, out, Top.require_output)
                       EXCEPT !.pc = "resolve"] IN
        /\ stack' = Append(SetTop([Top EXCEPT !.k = @ + 1]), call)
        /\ log' = Append(log, Event("resolve", call, <<>>, <<>>))
    /\ UNCHANGED <<scope, session, nodes, fs, exc, created, ntmp, status, root, nsaves, lastOp>>

\* Mutant of CommitAfterSave: the entry is recorded whether the save of the
\* node to the cache artifact returned or raised.
CommitAlways == TRUE

\* The save of the node to its cache artifact returned: control is back in
\* the request and no exception is in flight.
CommitAfterSave == exc = NoException

\* The cache entry is recorded once the node has been saved to the artifact.
SessionCommit ==
    /\ Running
    /\ Top.pc = "commit"
    /\ CommitAfterSave
    /\ session' = [session EXCEPT !.cache = @ @@ (Top.node :> Top.cmd[1])]
    /\ stack' = SetTop([Top EXCEPT !.pc = "copy",
                           !.cmd = CopyCommand(Top.cmd[1], Top.output)])
    /\ UNCHANGED <<scope, nodes, fs, exc, log, created, ntmp, status, root, nsaves, lastOp>>

\* shell(('cp', '-r', cache_path, output)), after which the request returns.
SessionCopy(outcome) ==
    /\ Running /\ exc = NoException
    /\ Top.pc = "copy"
    /\ SessionShell(outcome)
    /\ LET called == Append(log, Event("shell", Top, <<Word(outcome)>>, Top.cmd)) IN
        IF outcome = "fail"
        THEN /\ exc' = Raise("CalledProcessError", Top.node)
             /\ log' = Append(called, RaiseEvent("CalledProcessError", Top))
             /\ fs' = fs
             /\ stack' = stack
             /\ status' = status
        ELSE /\ exc' = exc
             /\ log' = Append(called, ReturnEvent(Top))
             /\ fs' = IF outcome = "done" /\ Exists(fs, Top.cmd[3])
                       THEN WriteFile(fs, Top.cmd[4], fs[Top.cmd[3]]) ELSE fs
             /\ stack' = Pop
             /\ status' = StatusAfter(Pop, exc)
    /\ UNCHANGED <<scope, session, nodes, created, ntmp, root, nsaves, lastOp>>

\* Mutant of DeleteArtifacts: the newest artifact is left behind.
DeleteAllButLast(f, artifacts) ==
    [q \in DOMAIN f \ (artifacts \ {CachePath(Cardinality(artifacts))}) |-> f[q]]

\* Every cache artifact of the session is deleted.
DeleteArtifacts(f, artifacts) == [q \in DOMAIN f \ artifacts |-> f[q]]

\* The with block is left, normally or by an exception: the session is torn
\* down, its artifacts are deleted and its cache is gone.
ExitSession ==
    /\ session.state = "open" /\ status # "running"
    /\ fs' = DeleteArtifacts(fs, session.artifacts)
    /\ session' = [session EXCEPT !.state = "closed", !.cache = <<>>]
    /\ UNCHANGED <<scope, nodes, stack, exc, log, created, ntmp, status, root, nsaves, lastOp>>

\* ------------------------------------------------------- saving once more
\* What is at path p: its content, or nothing.
OutputState(f, p) == IF Exists(f, p) THEN Word(f[p]) ELSE <<"missing", 1>>

\* The end of a top-level save as the caller sees it: how it ended and what
\* is at the output path.
EndEvent ==
    [ev |-> "end", call |-> 0, parent |-> 0, node |-> root.node,
     args |-> <<Word(status), Word(exc.type), OutputState(fs, root.output)>>,
     cmd |-> <<>>, out |-> root.output, shell |-> "none"]

\* The caller calls save(output) of the same node a second time, outside a
\* session.  save has no state of its own: the call starts like the first
\* one.  The log goes on after the end of the first call.
SaveAgain ==
    /\ status \in {"returned", "raised"}
    /\ session.state = "none"
    /\ nsaves < MaxSaves + MaxRepeats
    /\ LET call == [Frame(Len(log) + 2, 0, root.node, root.output, root.require_output)
                       EXCEPT !.shell = root.shell] IN
        /\ stack' = <<call>>
        /\ log' = log \o <<EndEvent, Event("save", call, <<>>, <<>>)>>
    /\ status' = "running"
    /\ exc' = NoException
    /\ created' = {}
    /\ nsaves' = nsaves + 1
    /\ ntmp' = LastTemporary(fs)
    /\ UNCHANGED <<scope, session, nodes, fs, root, lastOp>>

\* A deterministic runner: a command it was given before ends as it did then.
DeterministicShell(outcome) ==
    \A i \in 1..Len(log) :
        (log[i].ev = "shell" /\ log[i].cmd = Top.cmd) => log[i].args = <<Word(outcome)>>

\* ------------------------------------------------------ intermediate files
\* The runners a caller hands over: the default, or one of its own.
Runners == {DefaultShell, "runner"}

\* The trees an intermediate is taken of are built from one input file and
\* from commands that name their output path.
ScopeSourceCalls == {<<"ConcreteDataSource", "PathLike", Word("in1")>>}

ScopeRunFunctions == {"noop", "minccalc"}

ScopeCreatorCommands == {"param2xfm"}

\* The NamedTemporaryFile of intermediate_saved: a fresh, empty, existing
\* file named after the last temporary file in use.
ScopeOutput(f) == Tmp(LastTemporary(f) + 1)

\* Mutant of CloseTemporaryFile: the file is closed but not deleted.
LeaveTemporaryFile(f, p) == f

\* The with NamedTemporaryFile block of intermediate_saved is left, by the
\* end of the generator or by an exception: the file is closed and deleted.
CloseTemporaryFile(f, p) == [q \in DOMAIN f \ {p} |-> f[q]]

\* with NamedTemporaryFile(suffix=self.preferred_suffix) as output:
\*     self.save(output.name, shell=shell, require_output=require_output)
\* The with statement of the caller has been reached; its body has not.
EnterIntermediate(kind, n, shell, require_output) ==
    /\ status = "idle" /\ session.state = "none" /\ scope.state = "none"
    /\ LET output == ScopeOutput(fs)
           call == [Frame(1, 0, n, output, require_output) EXCEPT !.shell = shell] IN
        /\ fs' = CreateTemporaryFiles(fs, <<output>>)
        /\ scope' = [NoScope EXCEPT !.state = "saving", !.kind = kind, !.node = n,
                                    !.output = output]
        /\ stack' = <<call>>
        /\ log' = <<Event("save", call, <<>>, <<>>)>>
        /\ root' = [node |-> n, output |-> output, shell |-> shell,
                    require_output |-> require_output]
        /\ ntmp' = LastTemporary(fs) + 1
    /\ status' = "running"
    /\ exc' = NoException
    /\ created' = {}
    /\ lastOp' = NoOp
    /\ UNCHANGED <<session, nodes, nsaves>>

\* with node.intermediate_saved(shell, require_output) as path: of a
\* DataSource or of a Creator.
IntermediateSaved(n, shell, require_output) ==
    EnterIntermediate("saved", n, shell, require_output)

\* with node.intermediate_source(shell, require_output) as source: a
\* DataSource enters its intermediate_saved, a Creator yields itself at once
\* and saves nothing.
IntermediateSource(n, shell, require_output) ==
    IF nodes[n].kind = "DataSource"
    THEN EnterIntermediate("source", n, shell, require_output)
    ELSE /\ status = "idle" /\ session.state = "none" /\ scope.state = "none"
         /\ scope' = [NoScope EXCEPT !.state = "body", !.kind = "source", !.node = n,
                                     !.entered = TRUE, !.yielded = n]
         /\ lastOp' = NoOp
         /\ UNCHANGED <<session, nodes, fs, stack, exc, log, created, ntmp, status,
                        root, nsaves>>

\* self.save returned inside intermediate_saved: yield output.name, and the
\* body of the caller's with statement is entered.
YieldSaved ==
    /\ scope.state = "saving" /\ scope.kind = "saved" /\ status = "returned"
    /\ scope' = [scope EXCEPT !.state = "body", !.saved = "ok", !.entered = TRUE]
    /\ UNCHANGED <<session, nodes, fs, stack, exc, log, created, ntmp, status, root,
                   nsaves, lastOp>>

\* yield dataclasses.replace(self, input=saved_file, run=noop): saved_file
\* is output.name, a str, and __post_init__ of the new object takes the
\* Iterable branch.  The TypeError leaves intermediate_saved through its with
\* block, which deletes the file, and is raised by the caller's with
\* statement before its body.
YieldSource ==
    /\ scope.state = "saving" /\ scope.kind = "source" /\ status = "returned"
    /\ IF ContainsInvalidTypes("str", scope.output)
       THEN /\ fs' = CloseTemporaryFile(fs, scope.output)
            /\ scope' = [scope EXCEPT !.state = "raised", !.saved = "ok",
                                      !.error = "TypeError"]
            /\ lastOp' = Constructed("str", scope.output, "TypeError", 0)
            /\ nodes' = nodes
       ELSE /\ fs' = fs
            /\ nodes' = Append(nodes, DataSource(nodes[scope.node].cls, <<>>, "noop"))
            /\ scope' = [scope EXCEPT !.state = "body", !.saved = "ok", !.entered = TRUE,
                                      !.yielded = Len(nodes) + 1]
            /\ lastOp' = Constructed("str", scope.output, "ok", Len(nodes) + 1)
    /\ UNCHANGED <<session, stack, exc, log, created, ntmp, status, root, nsaves>>

\* self.save raised inside intermediate_saved: the exception leaves the with
\* block, which deletes the file, and goes on to the caller; nothing is
\* yielded.
SaveFailed ==
    /\ scope.state = "saving" /\ status = "raised"
    /\ fs' = CloseTemporaryFile(fs, scope.output)
    /\ scope' = [scope EXCEPT !.state = "raised", !.saved = "failed", !.error = exc.type]
    /\ UNCHANGED <<session, nodes, stack, exc, log, created, ntmp, status, root,
                   nsaves, lastOp>>

\* A save the caller makes in the body of its with statement: of any node
\* it holds, and of the node it was yielded.
SaveInBody(n, output, require_output) ==
    /\ scope.state = "body"
    /\ Save(n, output, require_output)

\* The body ends, normally or by raising error: the generator is resumed or
\* thrown into, and intermediate_saved leaves its with block.  A Creator's
\* intermediate_source holds no file.
LeaveBody(error) ==
    /\ scope.state = "body" /\ status # "running"
    /\ fs' = IF scope.output = Word("") THEN fs ELSE CloseTemporaryFile(fs, scope.output)
    /\ scope' = [scope EXCEPT !.state = IF error = "none" THEN "exited" ELSE "raised",
                              !.error = error]
    /\ UNCHANGED <<session, nodes, stack, exc, log, created, ntmp, status, root,
                   nsaves, lastOp>>

BodyErrors == {"none", "RuntimeError"}

\* ------------------------------------------------------------------- Next
Next ==
    \/ \E call \in SourceCalls \cup StrCalls : NewDataSource(call[1], call[2], call[3])
    \/ \E c \in CreatorCommands : NewCreator(c)
    \/ \E x \in NodeIds, r \in RunFunctions : AppendRun(x, r)
    \/ \E x \in NodeIds, r \in RunFunctions, inputs \in SeqsUpTo(Savable, MaxInputs) :
          AppendJoin(x, r, inputs)
    \/ \E n \in Savable, o \in OutputPaths, ro \in BOOLEAN : Save(n, o, ro)
    \/ EnterTemporaryFiles
    \/ SaveDependency
    \/ CopyStartingFile
    \/ CallRun
    \/ GuardCommand
    \/ CallCommand
    \/ \E outcome \in ShellOutcomes : RunShell(outcome)
    \/ LeaveExitStack
    \/ VerifyOutput
    \/ Unwind

Spec == Init /\ [][Next]_vars

\* Saving a node twice with a deterministic runner.
NextTwice ==
    \/ \E call \in SourceCalls : NewDataSource(call[1], call[2], call[3])
    \/ \E c \in CreatorCommands : NewCreator(c)
    \/ \E x \in NodeIds, r \in RunFunctions : AppendRun(x, r)
    \/ \E x \in NodeIds, r \in RunFunctions, inputs \in SeqsUpTo(Savable, MaxInputs) :
          AppendJoin(x, r, inputs)
    \/ \E n \in Savable, o \in OutputPaths, ro \in BOOLEAN : Save(n, o, ro)
    \/ SaveAgain
    \/ EnterTemporaryFiles
    \/ SaveDependency
    \/ CopyStartingFile
    \/ CallRun
    \/ GuardCommand
    \/ CallCommand
    \/ \E outcome \in ShellOutcomes : RunShell(outcome) /\ DeterministicShell(outcome)
    \/ LeaveExitStack
    \/ VerifyOutput
    \/ Unwind

SpecTwice == Init /\ [][NextTwice]_vars

\* Resolving nodes inside a Session.
NextSession ==
    \/ \E call \in SessionSourceCalls : NewDataSource(call[1], call[2], call[3])
    \/ \E c \in SessionCreatorCommands : NewCreator(c)
    \/ \E x \in NodeIds, r \in SessionRunFunctions : AppendRun(x, r)
    \/ \E x \in NodeIds, r \in SessionRunFunctions, inputs \in SeqsUpTo(Savable, MaxInputs) :
          AppendJoin(x, r, inputs)
    \/ \E ro \in BOOLEAN, shell \in SessionShells : EnterSession(ro, shell)
    \/ \E n \in Savable, o \in OutputPaths : SessionSave(n, o)
    \/ SessionLookup
    \/ SessionResolveDependency
    \/ SessionCommit
    \/ \E outcome \in ShellOutcomes : SessionCopy(outcome)
    \/ ExitSession
    \/ EnterTemporaryFiles
    \/ CopyStartingFile
    \/ CallRun
    \/ GuardCommand
    \/ CallCommand
    \/ \E outcome \in ShellOutcomes : RunShell(outcome) /\ SessionShell(outcome)
    \/ LeaveExitStack
    \/ VerifyOutput
    \/ Unwind

SpecSession == Init /\ [][NextSession]_vars

\* Saving with a runner of the caller's, and taking intermediates.
NextScope ==
    \/ \E call \in ScopeSourceCalls : NewDataSource(call[1], call[2], call[3])
    \/ \E c \in ScopeCreatorCommands : NewCreator(c)
    \/ \E x \in NodeIds, r \in ScopeRunFunctions : AppendRun(x, r)
    \/ \E x \in NodeIds, r \in ScopeRunFunctions, inputs \in SeqsUpTo(Savable, MaxInputs) :
          AppendJoin(x, r, inputs)
    \/ \E n \in Savable, o \in OutputPaths, shell \in Runners, ro \in BOOLEAN :
          scope.state = "none" /\ SaveWith(n, o, shell, ro)
    \/ \E n \in Savable, shell \in Runners, ro \in BOOLEAN : IntermediateSaved(n, shell, ro)
    \/ \E n \in Savable, shell \in Runners, ro \in BOOLEAN : IntermediateSource(n, shell, ro)
    \/ YieldSaved
    \/ YieldSource
    \/ SaveFailed
    \/ \E n \in Savable, o \in OutputPaths, ro \in BOOLEAN : SaveInBody(n, o, ro)
    \/ \E error \in BodyErrors : LeaveBody(error)
    \/ EnterTemporaryFiles
    \/ SaveDependency
    \/ CopyStartingFile
    \/ CallRun
    \/ GuardCommand
    \/ CallCommand
    \/ \E outcome \in ShellOutcomes : RunShell(outcome)
    \/ LeaveExitStack
    \/ VerifyOutput
    \/ Unwind

SpecScope == Init /\ [][NextScope]_vars

\* Saving transformed surfaces.
NextSurface ==
    \/ \E call \in SurfaceCalls : NewDataSource(call[1], call[2], call[3])
    \/ \E x \in NodeIds : FlipX(x)
    \/ \E x \in NodeIds : SlideRight(x)
    \/ \E n \in Savable, o \in SurfaceOutputs, ro \in BOOLEAN : Save(n, o, ro)
    \/ EnterTemporaryFiles
    \/ SaveDependency
    \/ CopyStartingFile
    \/ CallRun
    \/ GuardCommand
    \/ CallCommand
    \/ \E outcome \in ShellOutcomes : RunShell(outcome)
    \/ LeaveExitStack
    \/ VerifyOutput
    \/ Unwind

SpecSurface == Init /\ [][NextSurface]_vars

\* Nodes constructed from iterables of nodes.
NextIterable ==
    \/ \E call \in ScopeSourceCalls : NewDataSource(call[1], call[2], call[3])
    \/ \E c \in ScopeCreatorCommands : NewCreator(c)
    \/ \E type \in IterableTypes, r \in ScopeRunFunctions,
          inputs \in SeqsUpTo(Savable, MaxInputs) :
          NewFromIterable("ConcreteDataSource", type, inputs, r)
    \/ \E n \in Savable, o \in OutputPaths, ro \in BOOLEAN : Save(n, o, ro)
    \/ EnterTemporaryFiles
    \/ SaveDependency
    \/ CopyStartingFile
    \/ CallRun
    \/ GuardCommand
    \/ CallCommand
    \/ \E outcome \in ShellOutcomes : RunShell(outcome)
    \/ LeaveExitStack
    \/ VerifyOutput
    \/ Unwind

SpecIterable == Init /\ [][NextIterable]_vars

\* ================================================================ claims
Done == status \in {"returned", "raised"}

Positions == 1..Len(log)

IsSaveOf(i, kind) == log[i].ev = "save" /\ nodes[log[i].node].kind = kind

\* The events ev of the call whose save event is at position i.
EventsOf(i, ev) == {j \in Positions : log[j].ev = ev /\ log[j].call = i}

\* The calls made by call i (its dependencies' saves) that returned normally.
ReturnedChildren(i) == {j \in Positions : log[j].ev = "return" /\ log[j].parent = i}

\* run event j of the call entered at i has one path per dependency, the
\* k-th being the path the k-th dependency was saved to, all distinct, and
\* the output path of the call as second argument.
RunArguments(i, j) ==
    LET deps == nodes[log[i].node].prev
        args == log[j].args IN
    /\ Len(args) = Len(deps)
    /\ \A k \in 1..Len(deps) :
          /\ args[k][1] = "tmp"
          /\ \E m \in (i + 1)..(j - 1) :
                /\ log[m].ev = "save" /\ log[m].parent = i
                /\ log[m].node = deps[k] /\ log[m].out = args[k]
          /\ \A l \in 1..Len(deps) : l # k => args[l] # args[k]
    /\ log[j].out = log[i].out

\* C1 as stated: every save of a DataSource with n dependencies calls run
\* exactly once, with the n temporary paths its dependencies were saved to,
\* in order, and with the output path.
C1_EverySaveRunsOnce ==
    Done =>
      \A i \in Positions : IsSaveOf(i, "DataSource") =>
          /\ Cardinality(EventsOf(i, "run")) = 1
          /\ \A j \in EventsOf(i, "run") : RunArguments(i, j)

\* C1 amended: a save of a DataSource with n dependencies calls run exactly
\* once when the save of each dependency returned, and not at all when one of
\* them raised; the call has the n temporary paths the dependencies were
\* saved to, in the order of prev, and the output path as second argument.
C1_SaveRunsOnceAfterDependencies ==
    Done =>
      \A i \in Positions : IsSaveOf(i, "DataSource") =>
          /\ \A j \in EventsOf(i, "run") : RunArguments(i, j)
          /\ IF Cardinality(ReturnedChildren(i)) = Len(nodes[log[i].node].prev)
             THEN Cardinality(EventsOf(i, "run")) = 1
             ELSE EventsOf(i, "run") = {}

\* A join of two different dependencies was saved and its run was called.
C1_Witness ==
    /\ status = "returned"
    /\ Len(nodes[root.node].prev) = 2
    /\ nodes[root.node].prev[1] # nodes[root.node].prev[2]
    /\ EventsOf(1, "run") # {}

\* C2: once the top-level save has returned or raised, no temporary file
\* created during it, at any depth, exists.
C2_NoTemporaryFileLeft == Done => created \cap DOMAIN fs = {}

\* A save that raised two levels down, after temporary files were created
\* at both levels.
C2_Witness ==
    /\ status = "raised"
    /\ Cardinality(created) >= 2
    /\ \E i \in Positions : log[i].ev = "raise" /\ log[i].parent > 1

\* The nodes n transitively depends on, n included.
RECURSIVE Reach(_)
Reach(n) == {n} \cup UNION {Reach(nodes[n].prev[k]) : k \in 1..Len(nodes[n].prev)}

InitialFiles == [p \in InputFiles |-> FileContent(p)]

\* C3: building nodes (the constructor, append, append_join) calls no run
\* function and no runner: until save is called the log is empty.  During a
\* save only the saved node and the nodes it transitively depends on have
\* their run function or command called, so no node appended after it has.
C3_Lazy ==
    /\ status = "idle" => log = <<>>
    /\ \A i \in Positions :
          log[i].ev \in {"run", "shell"} => log[i].node \in Reach(root.node)
    /\ \A i \in Positions, n \in NodeIds :
          (log[i].ev = "run" /\ n # root.node /\ root.node \in Reach(n))
             => log[i].node # n

\* A node was saved, and its run function called, while a node appended to
\* it exists (test_lazy).
C3_Witness ==
    /\ status = "returned"
    /\ EventsOf(1, "run") # {}
    /\ \E n \in NodeIds :
          /\ n # root.node /\ nodes[n].kind = "DataSource"
          /\ root.node \in Range(nodes[n].prev)

\* Command cmd was returned by a run function and does not contain path o.
Omits(cmd, o) == cmd # <<>> /\ o \notin Range(cmd)

\* C4: when the command run returned for a DataSource does not contain the
\* output path save was given, that command is never handed to the runner,
\* the next thing that happens is the ValueError, and the save fails with it.
C4_CommandWithoutOutputRejected ==
    \A i \in Positions : IsSaveOf(i, "DataSource") =>
        \A j \in EventsOf(i, "run") : Omits(log[j].cmd, log[i].out) =>
            /\ EventsOf(i, "shell") = {}
            /\ EventsOf(i, "return") = {}
            /\ j < Len(log) =>
                  /\ log[j + 1].ev = "raise" /\ log[j + 1].call = i
                  /\ log[j + 1].args = <<Word("ValueError")>>
            /\ Done => status = "raised" /\ exc = Raise("ValueError", log[i].node)

\* A dependency's run function returned a command without its output path
\* and the top-level save raised the ValueError.
C4_Witness ==
    /\ status = "raised"
    /\ exc.type = "ValueError"
    /\ nodes[exc.node].run = "true"
    /\ exc.node # root.node

\* The scenario of C5: the saved node r has the recipe returning ["true"] and
\* was appended to d, a node built from an input file.
C5_Scenario ==
    /\ status # "idle"
    /\ LET r == root.node IN
        /\ nodes[r].kind = "DataSource" /\ nodes[r].run = "true"
        /\ Len(nodes[r].prev) = 1
        /\ LET d == nodes[r].prev[1] IN
            /\ nodes[d].kind = "DataSource" /\ nodes[d].run = "noop"
            /\ Len(nodes[d].prev) = 1
            /\ nodes[nodes[d].prev[1]].kind = "StartingFile"

ShellCalls == {i \in Positions : log[i].ev = "shell"}

\* C5 as stated: in the scenario, when the ValueError is raised the runner
\* has not been called at all, not even for a dependency.
C5_ErrorBeforeAnyRunnerCall ==
    (C5_Scenario /\ exc.type = "ValueError") => ShellCalls = {}

\* C5 amended: in the scenario the save raises: the ValueError, unless the
\* runner failed on the dependency's copy command.  When the ValueError is
\* raised the runner has been called exactly once, with the cp command that
\* resolves the file-backed dependency; the node's own command is never
\* handed to the runner.
C5_ErrorAfterDependencyCopy ==
    C5_Scenario =>
        LET r == root.node
            d == nodes[r].prev[1] IN
        /\ \A i \in ShellCalls : log[i].node = d /\ log[i].cmd[1] = Word("cp")
        /\ exc.type = "ValueError" =>
              /\ exc.node = r
              /\ Cardinality(ShellCalls) = 1
              /\ \A i \in ShellCalls : log[i].args # <<Word("fail")>>
        /\ Done => /\ status = "raised"
                   /\ exc \in {Raise("ValueError", r), Raise("CalledProcessError", d)}

\* The scenario's save has raised the ValueError.
C5_Witness == C5_Scenario /\ status = "raised" /\ exc.type = "ValueError"

\* C6: when command(output) of a Creator returns a command without the
\* output path, the command is not handed to the runner and the save fails
\* with the ValueError.
C6_CreatorCommandGuarded ==
    \A i \in Positions : IsSaveOf(i, "Creator") =>
        \A j \in EventsOf(i, "run") : Omits(log[j].cmd, log[i].out) =>
            /\ EventsOf(i, "shell") = {}
            /\ Done => status = "raised" /\ exc = Raise("ValueError", log[i].node)

\* The calls of the runner made by call i that returned normally.
CompletedShell(i) == {j \in EventsOf(i, "shell") : log[j].args # <<Word("fail")>>}

\* C7: when the runner returned normally for the command of the node saved
\* at top level and the output path does not exist afterwards, the save
\* raises NoOutputException if require_output and returns otherwise; and a
\* NoOutputException is raised only by a call whose command has been run.
C7_RequireOutput ==
    /\ (Done /\ CompletedShell(1) # {} /\ ~Exists(fs, root.output)) =>
          IF root.require_output
          THEN status = "raised" /\ exc = Raise("NoOutputException", root.node)
          ELSE status = "returned"
    /\ \A i \in Positions :
          (log[i].ev = "raise" /\ log[i].args = <<Word("NoOutputException")>>)
             => \E j \in CompletedShell(log[i].call) : j < i

\* The top-level save of a DataSource ran its command, found no output and
\* raised NoOutputException.
C7_Witness ==
    /\ status = "raised"
    /\ exc = Raise("NoOutputException", root.node)
    /\ nodes[root.node].kind = "DataSource"
    /\ ~Exists(fs, root.output)

\* C8: with require_output, when the command of a dependency (a call staged
\* to a temporary path) wrote nothing to that path, the run function of the
\* dependent (the calling node) is not called and the save fails with
\* NoOutputException.
C8_DependencyOutputChecked ==
    root.require_output =>
        \A i \in ShellCalls :
            (log[i].call # 1 /\ log[i].args = <<Word("nothing")>>) =>
                /\ EventsOf(log[i].parent, "run") = {}
                /\ Done => status = "raised" /\ exc.type = "NoOutputException"

\* C9: once an exception is raised in any call (by the runner, by a run
\* function, or by save itself) nothing else happens in the top-level save:
\* no further dependency is saved, no run function and no runner is called,
\* and the save ends by raising that very exception.
C9_FailurePropagates ==
    \A i \in Positions : log[i].ev = "raise" =>
        /\ i = Len(log)
        /\ exc = Raise(log[i].args[1][1], log[i].node)
        /\ status \in {"running", "raised"}

\* The runner failed for the first of two different dependencies: the
\* second was never saved and the top-level save raised.
C9_Witness ==
    /\ status = "raised"
    /\ exc.type = "CalledProcessError"
    /\ Len(nodes[root.node].prev) = 2
    /\ nodes[root.node].prev[1] # nodes[root.node].prev[2]
    /\ exc.node = nodes[root.node].prev[1]
    /\ \A i \in Positions : log[i].node # nodes[root.node].prev[2]

\* C10: append_join raises ValueError whenever self is not one of the nodes
\* in inputs, succeeds only when it is one of them, and either way runs
\* nothing and touches no file.
C10_AppendJoinRequiresSelf ==
    lastOp.op = "append_join" =>
        /\ lastOp.self \notin Range(lastOp.inputs) => lastOp.result = "ValueError"
        /\ lastOp.result = "ok" => lastOp.self \in Range(lastOp.inputs)
        /\ log = <<>> /\ fs = InitialFiles

\* The path of the constructor call recorded in lastOp.
ConstructedFrom == lastOp.inputs[2]

\* C11: constructing a node from a path that is not an existing file fails
\* in the constructor with FileNotFoundError and yields no node.
C11_MissingPathFailsAtConstruction ==
    (lastOp.op = "DataSource" /\ ~IsFile(ConstructedFrom)) =>
        lastOp.result = "FileNotFoundError" /\ lastOp.new = 0

\* The top-level save of a node built from a path has handed only commands
\* that did their work to the runner.
SavedFromPath ==
    /\ status = "returned"
    /\ nodes[root.node].run = "noop"
    /\ Len(nodes[root.node].prev) = 1
    /\ nodes[nodes[root.node].prev[1]].kind = "StartingFile"
    /\ \A i \in ShellCalls : log[i].args = <<Word("done")>>

\* C12: a constructor call with the path of an existing file, a str or a
\* PathLike, yields a node whose single dependency is the leaf wrapping that
\* file; saving such a node leaves the content of the file at the output.
C12_PathInputWrapsFile ==
    /\ (lastOp.op = "DataSource" /\ IsFile(ConstructedFrom)) =>
          /\ lastOp.result = "ok"
          /\ lastOp.new \in NodeIds
          /\ Len(nodes[lastOp.new].prev) = 1
          /\ nodes[nodes[lastOp.new].prev[1]] = StartingFile(ConstructedFrom)
    /\ SavedFromPath =>
          /\ Exists(fs, root.output)
          /\ fs[root.output] = FileContent(nodes[nodes[root.node].prev[1]].starting_file)

\* The calls of the run function (or command) of node n.
RunsOf(n) == {i \in Positions : log[i].ev = "run" /\ log[i].node = n}

\* C18: during one save, the run function of a node is called at most once
\* and its command handed to the runner at most once, also when the node is
\* an input in more than one place of the tree.
C18_NodeRunsAtMostOnce ==
    \A n \in NodeIds :
        /\ Cardinality(RunsOf(n)) <= 1
        /\ Cardinality({i \in ShellCalls : log[i].node = n}) <= 1

\* The scenario of C20: the saved node was made by the constructor from the
\* path of an input file, so it is the noop recipe over the leaf wrapping
\* that file, and it is saved to "out" with require_output = FALSE.
C20_Scenario ==
    /\ status # "idle"
    /\ root.output = Word("out") /\ ~root.require_output
    /\ nodes[root.node].kind = "DataSource" /\ nodes[root.node].run = "noop"
    /\ Len(nodes[root.node].prev) = 1
    /\ nodes[nodes[root.node].prev[1]].kind = "StartingFile"

Ends == {e \in Positions : log[e].ev = "end"}

\* Event b of the second save is event a of the first one, e positions on.
SameEvent(a, b, e) ==
    /\ b.ev = a.ev /\ b.node = a.node /\ b.args = a.args
    /\ b.cmd = a.cmd /\ b.out = a.out
    /\ b.call = a.call + e
    /\ b.parent = IF a.parent = 0 THEN 0 ELSE a.parent + e

\* C19: when a node has been saved twice to the same path outside a session,
\* with a deterministic runner, the second save did what the first did: the
\* same calls of run functions and of the runner with the same commands, in
\* the same order, the same ending, and the same content at the output path.
C19_SavingTwiceIsIdempotent ==
    (status \in {"returned", "raised"}) =>
        \A e \in Ends :
            /\ Len(log) = 2 * e - 1
            /\ \A i \in 1..(e - 1) : SameEvent(log[i], log[e + i], e)
            /\ log[e].args = <<Word(status), Word(exc.type), OutputState(fs, root.output)>>

\* A node with a dependency was saved twice, the runner did its work, and
\* the output holds content.
C19_Witness ==
    /\ status = "returned" /\ Ends # {}
    /\ Cardinality(ShellCalls) >= 4
    /\ Exists(fs, root.output) /\ fs[root.output] # ""

\* ------------------------------------------------- claims about the Session
\* The requests to resolve node n, top-level or for a dependent.
ResolvesOf(n) == {i \in Positions : log[i].ev = "resolve" /\ log[i].node = n}

\* The saves of n to a cache artifact that returned.
CachedAt(n) ==
    {i \in Positions : /\ log[i].ev = "return" /\ log[i].node = n
                        /\ log[i].out[1] = "cache"}

\* The calls of the runner with the command of n (not with a copy).
CommandShells(n) ==
    {i \in ShellCalls : log[i].node = n /\ log[log[i].call].ev = "save"}

\* The calls of the run function of n in a save that returned.
SuccessfulRuns(n) == {i \in RunsOf(n) : EventsOf(log[i].call, "return") # {}}

\* Request i of node n does nothing but copy the artifact of n.
OnlyCopies(i) ==
    /\ EventsOf(i, "save") = {}
    /\ \A j \in Positions : log[j].parent = i => log[j].ev # "save"
    /\ i < Len(log) =>
          /\ log[i + 1].ev = "shell" /\ log[i + 1].call = i
          /\ \E c \in CachedAt(log[i].node) :
                c < i /\ log[i + 1].cmd = CopyCommand(log[c].out, log[i].out)

Commands == {n \in NodeIds : nodes[n].kind # "StartingFile"}

\* C13 as stated: however often a node is resolved in an open session, its
\* command function is called once and its command is run once, and every
\* request after the first only copies.
C13_ResolvedExactlyOnce ==
    session.state = "open" =>
        \A n \in Commands :
            /\ Cardinality(RunsOf(n)) <= 1
            /\ Cardinality(CommandShells(n)) <= 1
            /\ \A i \in ResolvesOf(n) :
                  (\E j \in ResolvesOf(n) : j < i) => OnlyCopies(i)

\* C13 amended: in an open session the command function of a node is called
\* and its command run in at most one save that returned; after that save
\* neither is called again and every request for the node only copies the
\* artifact; a request made before it (none returned yet) saves the node.
C13_CachedNodeNeverRunsAgain ==
    session.state = "open" =>
        \A n \in Commands :
            /\ Cardinality(SuccessfulRuns(n)) <= 1
            /\ Cardinality(CachedAt(n)) <= 1
            /\ \A c \in CachedAt(n) :
                  /\ \A i \in RunsOf(n) \cup CommandShells(n) : i < c
                  /\ \A i \in ResolvesOf(n) : i > c => OnlyCopies(i)
            /\ \A i \in ResolvesOf(n) :
                  (i < Len(log) /\ \A c \in CachedAt(n) : c > i) =>
                      /\ log[i + 1].ev = "save" /\ log[i + 1].node = n
                      /\ log[i + 1].parent = i /\ log[i + 1].out[1] = "cache"

\* A node was resolved twice to completion and its command run once.
C13_Witness ==
    /\ session.state = "open" /\ status = "returned" /\ nsaves = 2
    /\ \E n \in Commands :
          /\ Cardinality({i \in ResolvesOf(n) : log[i].parent = 0}) = 2
          /\ Cardinality(RunsOf(n)) = 1 /\ Cardinality(CommandShells(n)) = 1
          /\ Cardinality({i \in ShellCalls : log[i].node = n}) = 3

\* The top-level requests, in order.
Requests == {i \in Positions : log[i].ev = "resolve" /\ log[i].parent = 0}

\* The scenario of C14: B was resolved and the request returned, then C, and
\* that request returned too; node a is an input of both.
SharedInput(a) ==
    /\ session.state = "open" /\ status = "returned"
    /\ Cardinality(Requests) = 2
    /\ a \in Commands
    /\ \E b, c \in Requests :
          /\ b < c /\ log[b].node # log[c].node
          /\ a \notin {log[b].node, log[c].node}
          /\ a \in Range(nodes[log[b].node].prev)
          /\ a \in Range(nodes[log[c].node].prev)
          /\ EventsOf(b, "return") # {}

\* The position of the second top-level request.
SecondRequest == CHOOSE c \in Requests : \A b \in Requests : b <= c

\* C14: when a is an input of B and of C, and B then C are resolved in one
\* session, the command function of a is called once and its command run
\* once over both requests, during the first; the second resolves a again
\* (unless C itself was cached as an input of B) and every request for a it
\* makes only copies the artifact a was saved to during the first.
C14_SharedInputRunsOnce ==
    \A a \in NodeIds : SharedInput(a) =>
        /\ Cardinality(RunsOf(a)) = 1
        /\ Cardinality(CommandShells(a)) = 1
        /\ \A i \in RunsOf(a) \cup CommandShells(a) \cup CachedAt(a) : i < SecondRequest
        /\ (\A c \in CachedAt(log[SecondRequest].node) : c > SecondRequest) =>
              \E i \in ResolvesOf(a) : i > SecondRequest
        /\ \A i \in ResolvesOf(a) : i > SecondRequest =>
              /\ OnlyCopies(i)
              /\ log[i + 1].cmd[3] = session.cache[a]

\* The scenario happened with three different nodes and a runner that runs
\* the commands.
C14_Witness ==
    /\ session.shell = "subprocess_run"
    /\ \E a \in NodeIds :
          /\ SharedInput(a) /\ Exists(fs, session.cache[a])
          /\ \E i \in ResolvesOf(a) : i > SecondRequest

\* The calls of the runner made from request i on.
ShellCallsFrom(i) == {j \in ShellCalls : j > i}

\* Request i is the first one for its node and it returned.
FirstResolution(i) ==
    /\ i \in Requests /\ EventsOf(i, "return") # {}
    /\ \A j \in ResolvesOf(log[i].node) : i <= j
    /\ \A j \in Requests : j <= i

\* Calls j and k of the runner are the command of the node of request i,
\* built for a cache artifact that is not the requested output, and then the
\* copy of that artifact to the requested output.
CommandThenCopy(i, j, k) ==
    /\ j < k
    /\ log[j].node = log[i].node /\ log[log[j].call].parent = i
    /\ log[j].out[1] = "cache" /\ log[j].out # log[i].out
    /\ log[j].out \in Range(log[j].cmd) /\ log[i].out \notin Range(log[j].cmd)
    /\ log[k].call = i
    /\ log[k].cmd = <<Word("cp"), Word("-r"), log[j].out, log[i].out>>

\* C15 as stated: the first resolution of a node makes exactly two calls of
\* the runner: the command of the node, built for the cache path, and then
\* the copy from the cache path to the output.
C15_ExactlyTwoRunnerCalls ==
    \A i \in Positions : (FirstResolution(i) /\ status = "returned" /\ nsaves = 1) =>
        /\ Cardinality(ShellCallsFrom(i)) = 2
        /\ \E j, k \in ShellCallsFrom(i) : CommandThenCopy(i, j, k)

\* C15 amended: the first resolution of a node ends with exactly two calls
\* of the runner for that node, the command built for the cache path and
\* then the copy from the cache path to the output; every call before them
\* resolves a dependency, and a node without dependencies makes no other.
C15_CommandThenCopyLast ==
    \A i \in Positions : (FirstResolution(i) /\ status = "returned" /\ nsaves = 1) =>
        /\ \E j, k \in ShellCallsFrom(i) :
              /\ CommandThenCopy(i, j, k)
              /\ \A m \in ShellCallsFrom(i) : m <= k /\ (m < j \/ m \in {j, k})
              /\ \A m \in ShellCallsFrom(i) : m < j => log[m].node # log[i].node
                                                     \/ log[m].call # i
        /\ Cardinality({m \in ShellCallsFrom(i) : log[m].call = i}) = 1
        /\ nodes[log[i].node].prev = <<>> => Cardinality(ShellCallsFrom(i)) = 2

\* A node with a dependency was resolved for the first time: the runner was
\* called for the dependency, then twice for the node.
C15_Witness ==
    /\ status = "returned" /\ nsaves = 1 /\ session.state = "open"
    /\ FirstResolution(1)
    /\ nodes[root.node].kind = "DataSource"
    /\ Cardinality(ShellCalls) >= 3

\* The saves of n to a cache artifact that raised.
FailedSaves(n) ==
    {i \in Positions : /\ log[i].ev = "raise" /\ log[i].node = n
                        /\ log[i].out[1] = "cache"}

\* C16: a node has a cache entry only when a save of it to that artifact
\* returned, so a node whose saves all failed has none; and a request for a
\* node of which no save has returned yet saves the node again, calling its
\* command function, instead of copying an artifact.
C16_FailuresNotMemoized ==
    session.state = "open" =>
        /\ \A n \in DOMAIN session.cache :
              \E c \in CachedAt(n) : log[c].out = session.cache[n]
        /\ \A n \in NodeIds : (FailedSaves(n) # {} /\ CachedAt(n) = {}) => ~IsCached(n)
        /\ \A n \in NodeIds : \A i \in ResolvesOf(n) :
              (i < Len(log) /\ \A c \in CachedAt(n) : c > i) =>
                  /\ log[i + 1].ev = "save" /\ log[i + 1].node = n
                  /\ log[i + 1].call # i
                  /\ \A f \in FailedSaves(n) : f < i => log[i + 1].out # log[f].out
        /\ \A n \in Commands : \A f \in FailedSaves(n) : \A i \in ResolvesOf(n) :
              (f < i /\ EventsOf(i, "return") # {} /\ \A c \in CachedAt(n) : c > i) =>
                  /\ \E r \in RunsOf(n) : r > i
                  /\ \E k \in CommandShells(n) : k > i

\* The command of a node failed in the first request and was run again, to
\* the end, in the second.
C16_Witness ==
    /\ session.state = "open" /\ status = "returned" /\ nsaves = 2
    /\ \E n \in Commands :
          /\ n = root.node
          /\ \E f \in FailedSaves(n) : log[f].call = 2
          /\ Cardinality(CommandShells(n)) = 2
          /\ IsCached(n)

\* C17: once the session is torn down none of the artifacts it created
\* exists, its cache is empty, however the last request ended, and no
\* request is resolved: one made then is refused and runs nothing.
C17_TeardownDeletesEverything ==
    SessionClosed =>
        /\ session.artifacts \cap DOMAIN fs = {}
        /\ session.cache = <<>>
        /\ status # "running" /\ stack = <<>>
        /\ lastOp.op = "resolve" => lastOp.result = "error"

\* A session that created two artifacts was torn down after a request that
\* raised; an artifact had been written, and a request was made afterwards.
C17_Witness ==
    /\ SessionClosed /\ status = "raised"
    /\ Cardinality(session.artifacts) >= 2
    /\ \E i \in ShellCalls : log[i].out[1] = "cache" /\ log[i].args = <<Word("done")>>
    /\ lastOp.op = "resolve"

\* C21: entering intermediate_source of a node, once the node's save has
\* not failed, resolves the node exactly once and yields a node of the same
\* type, and no save of the yielded node inside the scope calls the original
\* node's run or command function or hands its command to the runner.
C21_IntermediateSourceReuses ==
    (scope.kind = "source" /\ scope.state # "saving" /\ scope.saved # "failed") =>
        /\ scope.saved = "ok"
        /\ scope.entered
        /\ scope.yielded # 0
        /\ nodes[scope.yielded].cls = nodes[scope.node].cls
        /\ \A i \in Positions :
              log[i].ev \in {"run", "shell"} => log[i].node # scope.node

\* The call whose save event is at position c is the call entered at i or
\* one made, at any depth, while that call was resolving its dependencies.
RECURSIVE InCall(_, _)
InCall(i, c) == c = i \/ (c > i /\ InCall(i, log[c].parent))

\* The saves of its dependencies the call entered at i has made.
DependencySaves(i) == {m \in Positions : log[m].ev = "save" /\ log[m].parent = i}

\* The runner calls made by the call entered at i and by the calls below it.
RunnerCallsWithin(i) == {s \in Positions : log[s].ev = "shell" /\ InCall(i, log[s].call)}

\* C22: resolution is depth-first in declared input order.  For every save
\* of a DataSource: the k-th dependency it saves is its k-th input; every
\* runner call made while an input is resolved precedes the save of the
\* next input; when its run function is called every input has been saved
\* and has returned; and its own command is the last runner call of its save.
C22_DepthFirstInDeclaredOrder ==
    \A i \in Positions : IsSaveOf(i, "DataSource") =>
        LET inputs == nodes[log[i].node].prev
            kids == DependencySaves(i) IN
        /\ \A m \in kids :
              LET k == Cardinality({l \in kids : l <= m}) IN
              k <= Len(inputs) /\ log[m].node = inputs[k]
        /\ \A m1 \in kids, m2 \in kids :
              m1 < m2 => \A s \in RunnerCallsWithin(m1) : s < m2
        /\ \A j \in EventsOf(i, "run") :
              /\ Cardinality(kids) = Len(inputs)
              /\ \A m \in kids : \E r \in EventsOf(m, "return") : r < j
              /\ \A m \in kids : \A s \in RunnerCallsWithin(m) : s < j
        /\ \A s \in EventsOf(i, "shell") : \A t \in RunnerCallsWithin(i) : t <= s

\* A save that returned, of a node with two different inputs whose
\* resolutions each made a runner call, and which ran its own command.
C22_Witness ==
    /\ status = "returned"
    /\ \E i \in Positions :
          /\ IsSaveOf(i, "DataSource")
          /\ Len(nodes[log[i].node].prev) = 2
          /\ nodes[log[i].node].prev[1] # nodes[log[i].node].prev[2]
          /\ \A m \in DependencySaves(i) : RunnerCallsWithin(m) # {}
          /\ Cardinality(DependencySaves(i)) = 2
          /\ EventsOf(i, "shell") # {}

\* The k-th dependency of the call in frame d has been saved and has
\* returned: the loop of the frame is past it and no call of it is running.
Resolved(d, k) == k < stack[d].k - (IF d < Len(stack) THEN 1 ELSE 0)

\* The call in frame d is inside its with block and has not yet got its
\* command back from the runner.
BeforeRunnerReturns(d) == stack[d].pc \in {"deps", "guard", "shell"}

\* C23: no premature release.  While a call of save is between the entry of
\* its with block and the return of its runner, and no exception is in
\* flight, every temporary path of its input tuple exists, and no step
\* deletes one of them or changes what a resolved input left there: run and
\* the runner find each path holding the output of the corresponding input.
C23_NoPrematureRelease ==
    [][exc = NoException =>
          \A d \in 1..Len(stack) : BeforeRunnerReturns(d) =>
              \A k \in 1..Len(stack[d].real_input_names) :
                  LET p == stack[d].real_input_names[k] IN
                  /\ Exists(fs, p)
                  /\ Exists(fs', p)
                  /\ Resolved(d, k) => fs'[p] = fs[p]]_vars

\* A command is about to be handed to the runner by a node with two inputs,
\* each of which has left data at its temporary path.
C23_Witness ==
    /\ Running /\ exc = NoException
    /\ Top.pc = "shell"
    /\ Len(Top.real_input_names) = 2
    /\ \A k \in 1..2 :
          /\ Exists(fs, Top.real_input_names[k])
          /\ fs[Top.real_input_names[k]] # ""

\* A file-backed node: what cls(path) returns, the noop recipe over the
\* _StartingFile of the path.
IsFileBacked(n) ==
    /\ nodes[n].kind = "DataSource"
    /\ Len(nodes[n].prev) = 1
    /\ nodes[nodes[n].prev[1]].kind = "StartingFile"

\* The number of recipes appended, one after the other, to a file-backed
\* node to make node n; -1 when n is no such linear chain.
RECURSIVE Appended(_)
Appended(n) ==
    IF IsFileBacked(n) THEN 0
    ELSE IF nodes[n].kind = "DataSource" /\ Len(nodes[n].prev) = 1
         THEN LET below == Appended(nodes[n].prev[1]) IN
              IF below < 0 THEN -1 ELSE below + 1
         ELSE -1

\* The position in the log of the j-th runner call.
NthShellCall(j) == CHOOSE s \in ShellCalls : Cardinality({t \in ShellCalls : t <= s}) = j

\* The path the _StartingFile of the chain was copied to.
StagedLeafCopies == {log[i].out : i \in {j \in Positions : IsSaveOf(j, "StartingFile")}}

\* C24: a save that returns, of a linear chain of k >= 1 recipes appended to
\* a file-backed node, makes exactly k+1 runner calls, in chain order: the
\* first is a cp from the staged copy of the leaf to an intermediate path,
\* each later command reads the path the command before it wrote, which is
\* an intermediate path other than the one it writes, and only the last
\* command writes the final output path.
C24_LinearChainCommands ==
    (status = "returned" /\ Appended(root.node) >= 1) =>
        LET k == Appended(root.node)
            Cmd(j) == log[NthShellCall(j)].cmd
            In(j) == Cmd(j)[2]
            Out(j) == Cmd(j)[Len(Cmd(j))] IN
        /\ Cardinality(ShellCalls) = k + 1
        /\ \A j \in 1..(k + 1) : Appended(log[NthShellCall(j)].node) = j - 1
        /\ Cmd(1)[1] = Word("cp") /\ Len(Cmd(1)) = 3
        /\ In(1) \in StagedLeafCopies /\ In(1)[1] = "tmp"
        /\ Out(1)[1] = "tmp"
        /\ \A j \in 2..(k + 1) : In(j) = Out(j - 1)
        /\ \A j \in 1..(k + 1) : In(j) # Out(j)
        /\ \A j \in 1..(k + 1) : (Out(j) = root.output) <=> (j = k + 1)

\* A chain of two appended recipes has been saved and the save returned.
C24_Witness ==
    /\ status = "returned"
    /\ Appended(root.node) = 2
    /\ Cardinality(ShellCalls) = 3

\* The node saved is surf.flip_x().slide_right(): the translation joined to
\* the scale joined to a file-backed surface.
IsTransformOf(n, transformation) ==
    /\ nodes[n].run = "apply_xfm"
    /\ nodes[nodes[n].prev[2]].run = transformation

FlipAndSlide(n) ==
    /\ IsTransformOf(n, "TRANSLATION")
    /\ IsTransformOf(nodes[n].prev[1], "SCALES")
    /\ IsFileBacked(nodes[nodes[n].prev[1]].prev[1])

\* C25: saving surf.flip_x().slide_right() to 'result.obj', with no runner
\* call failing, runs exactly four commands, the first command run being the
\* param2xfm of the scale: param2xfm writing X1, transform_objects reading X1
\* and writing F, param2xfm of the translation writing X2, transform_objects
\* reading F and X2 and writing 'result.obj'.
C25_FlipAndSlideCommands ==
    (Done /\ FlipAndSlide(root.node) /\ exc.type \in {"none", "NoOutputException"}) =>
        LET Cmd(j) == log[NthShellCall(j)].cmd
            Out(j) == Cmd(j)[Len(Cmd(j))] IN
        /\ Cardinality(ShellCalls) = 4
        /\ Cmd(1)[1] = Word("param2xfm") /\ Cmd(1)[3] = Word("SCALES")
        /\ Cmd(2)[1] = Word("transform_objects") /\ Cmd(2)[3] = Out(1)
        /\ Cmd(3)[1] = Word("param2xfm") /\ Cmd(3)[3] = Word("TRANSLATION")
        /\ Cmd(4) = <<Word("transform_objects"), Out(2), Out(3), Word("result.obj")>>

\* The temporary files that exist.
TemporaryFiles == {p \in DOMAIN fs : p[1] = "tmp"}

\* The input files of the calls in progress: of the call that is running
\* and of its callers up to the top-level save.
HeldInputs == UNION {Range(stack[d].real_input_names) : d \in 1..Len(stack)}

\* The innermost call is about to call its run function, has called it, or
\* is handing its command to the runner.
AtRunOrCommand ==
    /\ Running /\ exc = NoException
    /\ \/ Top.pc \in {"guard", "shell"}
       \/ Top.pc = "deps" /\ Top.k > Len(Prev(Top.node))
       \/ Top.pc = "start" /\ nodes[Top.node].kind = "Creator"

\* C26: temporary files are scoped to the call that created them.  When a
\* node's run function is invoked and when its command is executed, the
\* temporary files that exist are exactly the input files of that call and
\* of its callers up to the root, and every temporary file created by a call
\* that has ended (while a dependency was resolved) has been deleted.
C26_TemporariesScopedToCall ==
    AtRunOrCommand =>
        /\ TemporaryFiles = HeldInputs
        /\ \A p \in created \ HeldInputs : ~Exists(fs, p)

\* The command of a dependency is executed while its caller holds two input
\* files and the temporary file of an earlier dependency has been deleted.
C26_Witness ==
    /\ Running /\ exc = NoException
    /\ Top.pc = "shell"
    /\ Len(stack) >= 2
    /\ Len(stack[1].real_input_names) = 2
    /\ created \ HeldInputs # {}

\* The call that made runner call s was made, at any depth, by the save of a
\* dependency of a dependency of the top-level call.
BelowDependency(s) == log[s].parent # 0 /\ log[log[s].parent].parent # 0

\* C27: the runner and the require_output flag given to a top-level save,
\* or to intermediate_saved and intermediate_source, are those of every call
\* of save made for it at every depth, and every command is handed to that
\* runner: with a runner of the caller's the default is never used.
C27_RunnerAndFlagPassedUnchanged ==
    /\ \A d \in 1..Len(stack) :
          /\ stack[d].shell = root.shell
          /\ stack[d].require_output = root.require_output
    /\ \A i \in Positions : log[i].ev \in {"save", "shell"} => log[i].shell = root.shell

\* A save given a runner of the caller's and require_output=False has
\* returned after a dependency of a dependency ran its command.
C27_Witness ==
    /\ status = "returned"
    /\ root.shell = "runner" /\ ~root.require_output
    /\ \E s \in ShellCalls : BelowDependency(s)
    /\ \A s \in ShellCalls : log[s].shell = "runner"

\* C28: a node constructed from an iterable of nodes, whether a tuple, a
\* list or a one-shot iterator, has exactly the iterable's elements, in
\* order, as its dependencies, and every save of it that reaches its run
\* function has saved each of them and hands run that many paths.
C28_IterableInputKept ==
    \A n \in NodeIds : nodes[n].given.type # "none" =>
        /\ nodes[n].prev = nodes[n].given.elements
        /\ \A i \in Positions : (IsSaveOf(i, "DataSource") /\ log[i].node = n) =>
              \A j \in EventsOf(i, "run") :
                  /\ Len(log[j].args) = Len(nodes[n].given.elements)
                  /\ Cardinality(DependencySaves(i)) = Len(nodes[n].given.elements)

\* C29: intermediate_saved is a scoped acquisition.  The body is entered
\* only after the node's save has returned; while the body runs, whatever
\* it saves, the yielded temporary path exists; once the scope has been left,
\* by the end of the body or by an exception of it, the path is deleted; and
\* when the save fails the body is never entered, the error of the save is
\* the one the with statement raises, and the path is deleted.
C29_IntermediateSavedIsScoped ==
    scope.kind = "saved" =>
        /\ scope.entered <=> scope.saved = "ok"
        /\ scope.state = "body" => Exists(fs, scope.output)
        /\ scope.state \in {"exited", "raised"} => ~Exists(fs, scope.output)
        /\ scope.state = "exited" => scope.entered
        /\ scope.saved = "failed" =>
              /\ scope.state = "raised"
              /\ scope.error = exc.type /\ exc # NoException

\* The body of an intermediate_saved scope made a save of its own and then
\* raised: the scope has been left and the yielded path is gone.
C29_Witness ==
    /\ scope.kind = "saved" /\ scope.state = "raised"
    /\ scope.entered /\ scope.error = "RuntimeError"
    /\ nsaves = 1 /\ status = "returned"
    /\ ~Exists(fs, scope.output)

====
